---- MODULE Spec2Model ----
(***************************************************************************)
(* A model of snmalloc's per-slab metadata (src/mem/metaslab.h): the       *)
(* occupancy counter, the bump/free-list head, the link offset, the        *)
(* free-list word encoding with its corruption check, and the debug        *)
(* validators.  The operations that claim and release blocks live in the   *)
(* allocator's slab layer (Slab::alloc / Slab::dealloc); they are modelled *)
(* here from the documented protocol and from the assertions that          *)
(* debug_slab_invariant and set_full place on them.                        *)
(*                                                                         *)
(* Machine words are wider than TLC's integers, so a word is a tuple of    *)
(* 16-bit limbs, least significant limb first: 4 limbs on a 64-bit target, *)
(* 2 limbs on a 32-bit target.                                             *)
(***************************************************************************)
EXTENDS Integers, Sequences, FiniteSets, TLC

VARIABLES
    cfg,        \* build and size-class configuration of the slab (immutable)
    used,       \* Metaslab::used   (uint16_t)
    head,       \* Metaslab::head   (Mod<SLAB_SIZE, uint16_t>)
    link,       \* Metaslab::link   (Mod<SLAB_SIZE, uint16_t>)
    mem,        \* first machine word of every block of the slab
    claimed,    \* ghost: offsets currently handed out to the client
    status,     \* "live" | "retired" | "uaf" | "cycle" | "assert"
    last,       \* ghost: the last operation and what it saw
    tampered,   \* ghost: free blocks whose stored word a client overwrote
    ncorrupt,   \* ghost: number of such overwrites so far
    walk,       \* state of a running debug_slab_acyclic_free_list loop
    codec,      \* state of a store_next / overwrite / follow_next experiment
    ctx         \* execution contexts inside add_use / sub_use

vars ==
    <<cfg, used, head, link, mem, claimed, status, last, tampered, ncorrupt,
      walk, codec, ctx>>

-----------------------------------------------------------------------------
(* Bounds of the model *)

\* Size classes with at most this many blocks per slab are explored.
MaxBlocks == 4

\* Number of blocks whose next-values are chosen freely in the cycle-check
\* experiment.
WalkBlocks == 3

\* Number of use-after-free writes in one behaviour.
MaxCorrupt == 1

\* Number of execution contexts that may be inside add_use / sub_use.
MaxContexts == 2

\* Number of times a context enters add_use / sub_use while another one is
\* inside.
MaxRaces == 1

-----------------------------------------------------------------------------
(* Fixed-width arithmetic *)

U16 == 65536

RECURSIVE XorBits(_, _, _)
XorBits(a, b, n) ==
    IF n = 0 THEN 0
    ELSE (((a % 2) + (b % 2)) % 2) + 2 * XorBits(a \div 2, b \div 2, n - 1)

\* exclusive-or of two 16-bit limbs (x ^ x = 0 and x ^ 0 = x need no bit loop)
Xor16(a, b) ==
    IF a = b THEN 0
    ELSE IF a = 0 THEN b
    ELSE IF b = 0 THEN a
    ELSE XorBits(a, b, 16)

RECURSIVE Pow2(_)
Pow2(n) == IF n = 0 THEN 1 ELSE 2 * Pow2(n - 1)

\* 2^n modulo m, for word widths that do not fit an integer of the checker
RECURSIVE Pow2Mod(_, _)
Pow2Mod(n, m) == IF n = 0 THEN 1 % m ELSE (2 * Pow2Mod(n - 1, m)) % m

NLimbs(bits) == bits \div 16

\* static_cast<size_t>(v) of a 16-bit value
ToWord(v, bits) == [i \in 1..NLimbs(bits) |-> IF i = 1 THEN v ELSE 0]

\* a ^ b on machine words
XorWord(a, b) == [i \in 1..Len(a) |-> Xor16(a[i], b[i])]

\* w << (bits::BITS - 16): the low limb moves to the top, the rest falls off
ShlTop(w) == [i \in 1..Len(w) |-> IF i = Len(w) THEN w[1] ELSE 0]

\* w > 0xFFFF
Above16(w) == \E i \in 2..Len(w) : w[i] # 0

\* static_cast<uint16_t>(w)
Low16(w) == w[1]

\* the word with bit number b (0 = least significant) inverted
FlipBit(w, b) ==
    [i \in 1..Len(w) |->
        IF i = (b \div 16) + 1 THEN Xor16(w[i], Pow2(b % 16)) ELSE w[i]]

\* (a - b) % m where the subtraction is done on unsigned words of the given
\* width and wraps when a < b
SubWrapMod(a, b, bits, m) ==
    IF a >= b THEN (a - b) % m
    ELSE (Pow2Mod(bits, m) + m - ((b - a) % m)) % m

-----------------------------------------------------------------------------
(* Free-list encoding: POISON, store_next, follow_next *)

POISON(bits) ==
    IF bits = 64 THEN <<0, 57005, 48879, 57005>>   \* 0xDEADBEEFDEAD0000
    ELSE <<0, 57005>>                              \* 0xDEAD0000

\* faulty variant: the shifted copy of the offset is left out of the stored word
store_next_noshift(h, c) ==
    IF ~c.check_client THEN ToWord(h, c.bits)
    ELSE XorWord(ToWord(h, c.bits), POISON(c.bits))

\* faulty variant: the bump tag (low bit) is dropped from the stored next-value
store_next_untagged(h, c) ==
    IF ~c.check_client THEN ToWord(h - (h % 2), c.bits)
    ELSE XorWord(XorWord(ToWord(h - (h % 2), c.bits), POISON(c.bits)),
                 ShlTop(ToWord(h - (h % 2), c.bits)))

\* the word written into a free block for next-value h
store_next(h, c) ==
    IF ~c.check_client THEN ToWord(h, c.bits)
    ELSE XorWord(XorWord(ToWord(h, c.bits), POISON(c.bits)),
                 ShlTop(ToWord(h, c.bits)))

\* faulty variant: the corruption check is compiled out
follow_next_nocheck(next, c) ==
    [fatal |-> FALSE, value |-> Low16(next)]

\* faulty variant: only the top 16 bits of the word are compared
follow_next_toponly(next, c) ==
    LET x == XorWord(XorWord(next, POISON(c.bits)), ShlTop(next))
    IN [fatal |-> c.check_client /\ x[Len(x)] # 0, value |-> Low16(next)]

\* reading a next-value back: fatal is the error("... Use-after-free.") path
follow_next(next, c) ==
    [fatal |-> c.check_client
               /\ Above16(XorWord(XorWord(next, POISON(c.bits)), ShlTop(next))),
     value |-> Low16(next)]

-----------------------------------------------------------------------------
(* Slab memory.  Only the first machine word of each block matters here.   *)
(* A block that is not on the free list (never used yet, or handed out to  *)
(* the client) holds Junk: data that is not a next-value and that the      *)
(* allocator has no business reading.                                      *)

Junk == <<>>

\* *static_cast<size_t*>(pointer_offset(slab, o)); a read of Junk or of an
\* offset that is no block is given the zero word, and NoJunkRead below
\* checks that the free list never leads to one
MemAt(m, o, c) ==
    IF o \in DOMAIN m /\ m[o] # Junk THEN m[o] ELSE ToWord(0, c.bits)

-----------------------------------------------------------------------------
(* Size-class services consumed by the Metaslab.  A configuration c is a   *)
(* record [slab_size, size, check_client, bits, ndebug].                   *)

sizeclass_to_size(c) == c.size

\* offset of the block reserved for the SlabLink node in a standard slab:
\* the slack that does not hold a whole block precedes the first block
get_initial_link(c) == c.slab_size % c.size

\* CACHE_FRIENDLY_OFFSET is OFF by default: block addresses carry no offset
remove_cache_friendly_offset(o, c) == o

\* faulty variant: the value is stored without reduction
ModSlab_unreduced(v, c) == v

\* assignment to a Mod<SLAB_SIZE, uint16_t>
ModSlab(v, c) == v % c.slab_size

\* faulty variant: the initial link offset is left out of the cursor
get_initial_bumpptr_nooffset(c) == ModSlab(sizeclass_to_size(c), c) + 1

\* initial bump cursor: the block after the link block, tagged
get_initial_bumpptr(c) ==
    ModSlab(get_initial_link(c) + sizeclass_to_size(c), c) + 1

BlockCount(c) == (c.slab_size - get_initial_link(c)) \div c.size

\* offsets of the blocks of the slab
Blocks(c) == {get_initial_link(c) + k * c.size : k \in 0..(BlockCount(c) - 1)}

-----------------------------------------------------------------------------
(* Metaslab: occupancy and fullness *)

\* faulty variant: the counter is bumped twice
add_use_twice(u) == (u + 2) % U16

add_use(u) == (u + 1) % U16

\* faulty variant: the decrement is lost
sub_use_lost(u) == u

sub_use(u) == (u + U16 - 1) % U16

set_unused == 0

is_unused(u) == u = 0

\* faulty variant: fullness tested against 0 instead of 1
is_full_zero(l) == l = 0

is_full(l) == l = 1

\* set_full: the two assertions, then link = 1
set_full_ok(h, l) == h = 1 /\ l # 1

\* faulty variant: link is left as it was
set_full_noop(h, l) == l

set_full(h, l) == 1

-----------------------------------------------------------------------------
(* debug_slab_acyclic_free_list: Floyd's tortoise and hare.  A loop state   *)
(* is [curr, curr_slow, both, pc, steps]; pc is "loop" while the while-loop *)
(* runs, "returned" after it exits, "cycle" / "uaf" after a fatal error.    *)

WalkStart(h) ==
    [curr |-> h, curr_slow |-> h, both |-> FALSE, pc |-> "loop", steps |-> 0]

\* faulty variant: the tortoise is advanced on every step, like the hare
WalkIter_lockstep(w, m, c) ==
    IF w.curr % 2 = 1 THEN [w EXCEPT !.pc = "returned"]
    ELSE
      LET n1 == follow_next(MemAt(m, w.curr, c), c)
      IN IF n1.fatal THEN [w EXCEPT !.pc = "uaf"]
         ELSE
           LET n2 == follow_next(MemAt(m, w.curr_slow, c), c)
           IN IF n2.fatal THEN [w EXCEPT !.pc = "uaf"]
              ELSE [curr |-> n1.value, curr_slow |-> n2.value,
                    both |-> ~w.both,
                    pc |-> IF n1.value = n2.value THEN "cycle" ELSE "loop",
                    steps |-> w.steps + 1]

\* faulty variant: hare and tortoise are not compared (and the steps are
\* not counted)
WalkIter_nocompare(w, m, c) ==
    IF w.curr % 2 = 1 THEN [w EXCEPT !.pc = "returned"]
    ELSE
      LET n1 == follow_next(MemAt(m, w.curr, c), c)
      IN IF n1.fatal THEN [w EXCEPT !.pc = "uaf"]
         ELSE
           LET n2 == follow_next(MemAt(m, w.curr_slow, c), c)
           IN IF w.both /\ n2.fatal THEN [w EXCEPT !.pc = "uaf"]
              ELSE [curr |-> n1.value,
                    curr_slow |-> IF w.both THEN n2.value ELSE w.curr_slow,
                    both |-> ~w.both, pc |-> "loop", steps |-> w.steps]

\* one evaluation of the loop condition and, if it holds, one loop body
WalkIter(w, m, c) ==
    IF w.curr % 2 = 1 THEN [w EXCEPT !.pc = "returned"]
    ELSE
      LET n1 == follow_next(MemAt(m, w.curr, c), c)
      IN IF n1.fatal THEN [w EXCEPT !.pc = "uaf"]
         ELSE
           LET n2 == follow_next(MemAt(m, w.curr_slow, c), c)
           IN IF w.both /\ n2.fatal THEN [w EXCEPT !.pc = "uaf"]
              ELSE
                LET slow == IF w.both THEN n2.value ELSE w.curr_slow
                IN [curr |-> n1.value, curr_slow |-> slow, both |-> ~w.both,
                    pc |-> IF n1.value = slow THEN "cycle" ELSE "loop",
                    steps |-> w.steps + 1]

RECURSIVE WalkRun(_, _, _)
WalkRun(w, m, c) == IF w.pc # "loop" THEN w ELSE WalkRun(WalkIter(w, m, c), m, c)

\* "returned", "cycle" or "uaf"
debug_slab_acyclic_free_list(h, m, c) == WalkRun(WalkStart(h), m, c).pc

-----------------------------------------------------------------------------
(* debug_slab_invariant.  The result is "ok" when every assertion holds,   *)
(* "assert" when one fails, "cycle" / "uaf" when the walk ends in a fatal  *)
(* error.                                                                  *)

\* the loop of lines 190-205: [res, curr, acc]
RECURSIVE InvWalk(_, _, _, _, _)
InvWalk(curr, acc, l, m, c) ==
    IF curr % 2 = 1 THEN [res |-> "ok", curr |-> curr, acc |-> acc]
    ELSE
      LET start == remove_cache_friendly_offset(curr, c)
          acc1  == acc + sizeclass_to_size(c)
          n     == follow_next(MemAt(m, curr, c), c)
      IN IF \/ SubWrapMod(start, get_initial_link(c), c.bits,
                          sizeclass_to_size(c)) # 0
            \/ ~(c.slab_size >= acc1)
            \/ curr = l
         THEN [res |-> "assert", curr |-> curr, acc |-> acc1]
         ELSE IF n.fatal THEN [res |-> "uaf", curr |-> curr, acc |-> acc1]
         ELSE InvWalk(n.value, acc1, l, m, c)

\* lines 207-226, given the walk's terminator and running total
InvTail(curr, acc, l, c) ==
    LET size == sizeclass_to_size(c)
        acc2 == IF curr # 1 THEN acc + (c.slab_size - (curr - 1)) ELSE acc
    IN /\ curr # 1 =>
            /\ SubWrapMod(remove_cache_friendly_offset(curr - 1, c),
                          get_initial_link(c), c.bits, size) = 0
            /\ l = get_initial_link(c)
       /\ ~is_full(l)
       /\ c.slab_size = acc2 + size

debug_slab_invariant(u, h, l, m, c) ==
    LET size == sizeclass_to_size(c)
        accounted_for == u * size + get_initial_link(c)
    IN IF is_full(l)
       THEN (IF c.slab_size = accounted_for THEN "ok" ELSE "assert")
       ELSE IF ~(c.slab_size > accounted_for) THEN "assert"
       ELSE LET cyc == debug_slab_acyclic_free_list(h, m, c)
            IN IF cyc # "returned" THEN cyc
               ELSE LET w == InvWalk(h, accounted_for, l, m, c)
                    IN IF w.res # "ok" THEN w.res
                       ELSE IF InvTail(w.curr, w.acc, l, c) THEN "ok"
                       ELSE "assert"

\* faulty variant: the tag bit is not cleared
valid_head_tagged(h, c) ==
    SubWrapMod(remove_cache_friendly_offset(h, c),
               get_initial_link(c), c.bits, sizeclass_to_size(c)) = 0

\* valid_head: head, tag bit cleared, is block-aligned from the initial link
valid_head(h, c) ==
    SubWrapMod(remove_cache_friendly_offset(h - (h % 2), c),
               get_initial_link(c), c.bits, sizeclass_to_size(c)) = 0

-----------------------------------------------------------------------------
(* The free-list segment as a sequence (used to state properties) *)

\* offsets visited from h until a bump-tagged value, at most n of them
RECURSIVE ChainSeq(_, _, _)
ChainSeq(h, m, n) ==
    IF h % 2 = 1 \/ n = 0 \/ h \notin DOMAIN m THEN <<>>
    ELSE IF m[h] = Junk THEN <<h>>
    ELSE <<h>> \o ChainSeq(Low16(m[h]), m, n - 1)

\* the value reached after following at most n next-values from h
RECURSIVE ChainEnd(_, _, _)
ChainEnd(h, m, n) ==
    IF h % 2 = 1 \/ n = 0 \/ h \notin DOMAIN m THEN h
    ELSE IF m[h] = Junk THEN h
    ELSE ChainEnd(Low16(m[h]), m, n - 1)

SeqSet(q) == {q[i] : i \in 1..Len(q)}

NoRepeat(q) == \A i, j \in 1..Len(q) : i # j => q[i] # q[j]

FreeList == ChainSeq(head, mem, BlockCount(cfg) + 1)

Terminator == ChainEnd(head, mem, BlockCount(cfg) + 1)

-----------------------------------------------------------------------------
(* Slab::alloc and Slab::dealloc, as pure steps on the Metaslab fields *)

\* ghost record of the last operation: its kind, the block it handed out or
\* took back, the branch a claim took, and for a release whether it returns
\* the block that the immediately preceding claim handed out
NoOp == [op |-> "none", p |-> 0, how |-> "none", after_claim |-> FALSE]

DebugCheck(u, h, l, m, c) ==
    IF c.ndebug THEN "ok" ELSE debug_slab_invariant(u, h, l, m, c)

\* Slab::alloc: [st, used, head, link, p, how]
AllocStep(u, h, l, m, c) ==
    LET pre == DebugCheck(u, h, l, m, c)
        u1  == add_use(u)
        keep(st) == [st |-> st, used |-> u, head |-> h, link |-> l,
                     p |-> 0, how |-> "none"]
    IN IF pre # "ok" THEN keep(pre)
       ELSE IF is_full(l) THEN keep("assert")
       ELSE IF h % 2 = 0 THEN
            \* free-list mode: the head block is handed out
            LET n == follow_next(MemAt(m, h, c), c)
            IN IF n.fatal THEN keep("uaf")
               ELSE LET h1   == ModSlab(n.value, c)
                        post == DebugCheck(u1, h1, l, m, c)
                    IN [st |-> IF post = "ok" THEN "live" ELSE post,
                        used |-> u1, head |-> h1, link |-> l,
                        p |-> h, how |-> "free"]
       ELSE IF h = 1 THEN
            \* fully bump allocated: the link block is the last one
            IF ~set_full_ok(h, l) THEN keep("assert")
            ELSE LET l1   == set_full(h, l)
                     post == DebugCheck(u1, h, l1, m, c)
                 IN [st |-> IF post = "ok" THEN "live" ELSE post,
                     used |-> u1, head |-> h, link |-> l1,
                     p |-> l, how |-> "link"]
       ELSE
            \* bump mode
            LET h1   == ModSlab(h + sizeclass_to_size(c), c)
                post == DebugCheck(u1, h1, l, m, c)
            IN [st |-> IF post = "ok" THEN "live" ELSE post,
                used |-> u1, head |-> h1, link |-> l,
                p |-> h - 1, how |-> "bump"]

\* Slab::dealloc of the block at offset p: [st, used, head, link, mem]
DeallocStep(p, u, h, l, m, c) ==
    LET was_full == is_full(l)
        pre == DebugCheck(u, h, l, m, c)
        u1  == sub_use(u)
        keep(st) == [st |-> st, used |-> u, head |-> h, link |-> l, mem |-> m]
    IN IF pre # "ok" THEN keep(pre)
       ELSE IF was_full THEN
            IF ~is_unused(u1) THEN
               \* the released block becomes the link block
               IF h # 1 THEN keep("assert")
               ELSE LET l1   == ModSlab(p, c)
                        post == DebugCheck(u1, h, l1, m, c)
                    IN [st |-> IF post = "ok" THEN "live" ELSE post,
                        used |-> u1, head |-> h, link |-> l1, mem |-> m]
            ELSE [st |-> "retired", used |-> u1, head |-> h, link |-> l,
                  mem |-> m]
       ELSE IF is_unused(u1) THEN
            [st |-> "retired", used |-> u1, head |-> h, link |-> l, mem |-> m]
       ELSE
            \* push on the free list
            LET h1   == ModSlab(p, c)
                m1   == [m EXCEPT ![p] = store_next(h, c)]
                post == DebugCheck(u1, h1, l, m1, c)
            IN IF ~c.ndebug /\ ~valid_head(h1, c) THEN keep("assert")
               ELSE [st |-> IF post = "ok" THEN "live" ELSE post,
                     used |-> u1, head |-> h1, link |-> l, mem |-> m1]

-----------------------------------------------------------------------------
(* The slab under the single-writer, add_use/sub_use discipline *)

SLAB_SIZE == 65536

SizeClasses == {40960, 32768, 20480, 16384, 14336, 12288, 10240, 8192}

Builds ==
    {[check_client |-> cc, bits |-> b, ndebug |-> nd] :
        cc \in BOOLEAN, b \in {32, 64}, nd \in BOOLEAN}

Config(slab, s, b) ==
    [slab_size |-> slab, size |-> s, check_client |-> b.check_client,
     bits |-> b.bits, ndebug |-> b.ndebug]

\* debug builds: the validators run inside every claim and release
DebugBuilds == {b \in Builds : ~b.ndebug}

Configs ==
    {Config(SLAB_SIZE, s, b) :
        s \in {x \in SizeClasses : SLAB_SIZE \div x <= MaxBlocks},
        b \in Builds}

IdleWalk == [curr |-> 1, curr_slow |-> 1, both |-> FALSE, pc |-> "idle",
             steps |-> 0]

\* no context is inside add_use / sub_use; raced counts the entries made
\* while another context was inside
Contexts == 1..MaxContexts

IdleCtx ==
    [th |-> [t \in Contexts |-> [pc |-> "idle", reg |-> 0, p |-> 0]],
     raced |-> 0]

IdleCodec == [pc |-> "idle", o |-> 0, word |-> <<>>, flipped |-> -1,
              fatal |-> FALSE, value |-> 0]

\* a slab freshly carved for configuration c (Superslab::alloc_slab)
Fresh(c) ==
    /\ cfg = c
    /\ used = 0
    /\ head = get_initial_bumpptr(c)
    /\ link = get_initial_link(c)
    /\ mem = [o \in Blocks(c) |-> Junk]
    /\ claimed = {}
    /\ status = "live"
    /\ last = NoOp
    /\ tampered = {}
    /\ ncorrupt = 0

Init ==
    /\ \E c \in Configs : Fresh(c)
    /\ walk = IdleWalk
    /\ codec = IdleCodec
    /\ ctx = IdleCtx

Claim ==
    /\ status = "live"
    /\ ~is_full(link)
    /\ \E r \in {AllocStep(used, head, link, mem, cfg)} :
          /\ used' = r.used
          /\ head' = r.head
          /\ link' = r.link
          /\ status' = r.st
          /\ claimed' = IF r.how = "none" THEN claimed ELSE claimed \cup {r.p}
          /\ last' = [op |-> "claim", p |-> r.p, how |-> r.how,
                      after_claim |-> FALSE]
          /\ tampered' = IF r.how = "free" THEN tampered \ {r.p} ELSE tampered
          \* the block now holds the client's data
          /\ mem' = IF r.how = "none" THEN mem ELSE [mem EXCEPT ![r.p] = Junk]
    /\ UNCHANGED <<cfg, ncorrupt, walk, codec, ctx>>

Release(p) ==
    /\ status = "live"
    /\ p \in claimed
    /\ \E r \in {DeallocStep(p, used, head, link, mem, cfg)} :
          /\ used' = r.used
          /\ head' = r.head
          /\ link' = r.link
          /\ mem' = r.mem
          /\ status' = r.st
          /\ claimed' = IF r.st \in {"live", "retired"}
                        THEN claimed \ {p} ELSE claimed
          /\ last' = [op |-> "release", p |-> p,
                      how |-> IF last.op = "claim" /\ last.p = p
                              THEN last.how ELSE "none",
                      after_claim |-> last.op = "claim" /\ last.p = p]
          /\ tampered' = IF r.mem # mem THEN tampered \ {p} ELSE tampered
    /\ UNCHANGED <<cfg, ncorrupt, walk, codec, ctx>>

\* faulty variant: the carved slab keeps the link of its previous life
Carve_keeplink ==
    /\ status = "retired"
    /\ head' = get_initial_bumpptr(cfg)
    /\ claimed' = {}
    /\ status' = "live"
    /\ last' = [NoOp EXCEPT !.op = "carve"]
    /\ UNCHANGED <<cfg, used, link, mem, tampered, ncorrupt, walk, codec, ctx>>

\* the retired slab is carved again for the same size class
Carve ==
    /\ status = "retired"
    /\ head' = get_initial_bumpptr(cfg)
    /\ link' = get_initial_link(cfg)
    /\ claimed' = {}
    /\ status' = "live"
    /\ last' = [NoOp EXCEPT !.op = "carve"]
    /\ UNCHANGED <<cfg, used, mem, tampered, ncorrupt, walk, codec, ctx>>

Next ==
    \/ Claim
    \/ \E p \in claimed : Release(p)
    \/ Carve

Spec == Init /\ [][Next]_vars

\* every assertion of debug_slab_invariant holds in a live slab
InvDebugOk ==
    status = "live" => debug_slab_invariant(used, head, link, mem, cfg) = "ok"

TypeOk ==
    /\ status \in {"live", "retired"}
    /\ claimed \subseteq Blocks(cfg)
    /\ used \in 0..(U16 - 1)
    /\ head \in 0..(cfg.slab_size - 1)
    /\ link \in 0..(cfg.slab_size - 1)

\* every block the free list passes through holds a stored next-value
NoJunkRead ==
    \A i \in 1..Len(FreeList) :
        FreeList[i] \in DOMAIN mem /\ mem[FreeList[i]] # Junk

-----------------------------------------------------------------------------
(* Properties of the slab under discipline (specification Spec) *)

\* bump headroom: the bytes from the bump cursor to the end of the slab
Headroom == IF Terminator = 1 THEN 0 ELSE cfg.slab_size - (Terminator - 1)

\* one block for the SlabLink node while the slab is not full
LinkReserve == IF is_full(link) THEN 0 ELSE sizeclass_to_size(cfg)

AccountedBlocks ==
    used * sizeclass_to_size(cfg) + Len(FreeList) * sizeclass_to_size(cfg)
        + Headroom + LinkReserve

\* C1 as stated: used blocks, free-list blocks, bump headroom and the link
\* reservation add up to the slab size in every state of a carved slab.
C1_AccountingAsClaimed ==
    status # "retired" => AccountedBlocks = cfg.slab_size

\* C1 amended: the four terms and the initial link offset (the slack in
\* front of the first block, which debug_slab_invariant starts its total
\* with) add up to the slab size in every state of a carved slab.
C1_Accounting ==
    status # "retired" =>
        AccountedBlocks + get_initial_link(cfg) = cfg.slab_size

\* all five terms are non-zero after a release
C1_Witness ==
    /\ status = "live" /\ last.op = "release"
    /\ used > 0 /\ Len(FreeList) > 0 /\ Headroom > 0 /\ ~is_full(link)
    /\ get_initial_link(cfg) > 0

\* C2: following stored next-values from head reaches a bump-tagged value
\* without revisiting an offset, in at most (blocks in the slab) steps.
C2_Acyclic ==
    /\ Terminator % 2 = 1
    /\ NoRepeat(FreeList)
    /\ Len(FreeList) <= BlockCount(cfg)
    /\ ChainEnd(head, mem, BlockCount(cfg)) = Terminator

\* a free list of two blocks, built by releases
C2_Witness ==
    status = "live" /\ last.op = "release" /\ Len(FreeList) >= 2

\* C3: is_full() holds exactly when every block of the slab is claimed and
\* head is the fully-bump-allocated sentinel; a full slab has no free block.
C3_Fullness ==
    status # "retired" =>
        /\ is_full(link) <=> (claimed = Blocks(cfg) /\ head = 1)
        /\ is_full(link) => (head = 1 /\ FreeList = <<>> /\ Headroom = 0)

\* a slab of several blocks filled by the claim of its link block
C3_Witness ==
    /\ status = "live" /\ is_full(link) /\ last.op = "claim"
    /\ Cardinality(claimed) >= 3

\* a not-full slab with head = 1: the link block is the only free block
C3_WitnessNotFull ==
    status = "live" /\ ~is_full(link) /\ head = 1 /\ used > 0

\* C10: in a not-full slab the walk from head to the terminator never
\* visits link.
C10_LinkNotFree ==
    ~is_full(link) => link \notin SeqSet(FreeList)

\* a non-empty free list in a slab whose link block has moved
C10_Witness ==
    /\ status = "live" /\ ~is_full(link) /\ Len(FreeList) >= 2
    /\ link # get_initial_link(cfg)

-----------------------------------------------------------------------------
(* The encoding on its own (specification SpecCodec): an offset is stored   *)
(* with store_next, one bit of the stored word may be inverted, and the     *)
(* word is read back with follow_next.                                      *)

\* the 16-bit offsets tried: the extremes, every single bit, every single
\* cleared bit, the two poison halves and their neighbours and complements,
\* and the block offsets and bump cursors of the slabs explored
CodecOffsets ==
    {0, 1, 2, 3, 65534, 65535, 57005, 57004, 48879, 48878, 8530, 16656,
     21845, 43690, 4097, 16385, 24577, 45057}
    \cup {Pow2(k) : k \in 0..15}
    \cup {65535 - Pow2(k) : k \in 0..15}

CodecBuilds == {b \in Builds : ~b.ndebug}

CodecInit ==
    /\ \E b \in CodecBuilds : Fresh(Config(SLAB_SIZE, 16384, b))
    /\ walk = IdleWalk
    /\ ctx = IdleCtx
    /\ \E o \in CodecOffsets : codec = [IdleCodec EXCEPT !.pc = "start", !.o = o]

\* store_next(p, o)
CodecStore ==
    /\ codec.pc = "start"
    /\ codec' = [codec EXCEPT !.pc = "stored", !.word = store_next(codec.o, cfg)]
    /\ UNCHANGED <<cfg, used, head, link, mem, claimed, status, last,
                   tampered, ncorrupt, walk, ctx>>

\* one bit of the stored word is inverted
CodecFlip ==
    /\ codec.pc = "stored"
    /\ \E b \in 0..(cfg.bits - 1) :
          codec' = [codec EXCEPT !.pc = "flipped", !.flipped = b,
                                 !.word = FlipBit(codec.word, b)]
    /\ UNCHANGED <<cfg, used, head, link, mem, claimed, status, last,
                   tampered, ncorrupt, walk, ctx>>

\* follow_next(p)
CodecFollow ==
    /\ codec.pc \in {"stored", "flipped"}
    /\ \E r \in {follow_next(codec.word, cfg)} :
          codec' = [codec EXCEPT !.pc = "read", !.fatal = r.fatal,
                                 !.value = r.value]
    /\ UNCHANGED <<cfg, used, head, link, mem, claimed, status, last,
                   tampered, ncorrupt, walk, ctx>>

CodecNext == CodecStore \/ CodecFlip \/ CodecFollow

SpecCodec == CodecInit /\ [][CodecNext]_vars

\* C4: in plain and in hardened mode, on 64-bit and 32-bit words,
\* follow_next of the word written by store_next(p, o) returns o and does
\* not take the fatal path.
C4_RoundTrip ==
    (codec.pc = "read" /\ codec.flipped = -1) =>
        (~codec.fatal /\ codec.value = codec.o)

\* the round trip of the offset equal to the poison half, hardened, 32 bit
C4_Witness ==
    /\ codec.pc = "read" /\ codec.flipped = -1 /\ ~codec.fatal
    /\ cfg.check_client /\ cfg.bits = 32 /\ codec.o = 57005

\* C5: in hardened mode, inverting any single bit of the word written by
\* store_next makes follow_next take the fatal path.
C5_BitFlipDetected ==
    (cfg.check_client /\ codec.pc = "read" /\ codec.flipped >= 0) =>
        codec.fatal

\* a flip of the lowest bit (inside the offset itself) on a 64-bit word, read
C5_Witness ==
    /\ cfg.check_client /\ cfg.bits = 64 /\ codec.pc = "read"
    /\ codec.flipped = 0 /\ codec.o = 16385 /\ codec.fatal

-----------------------------------------------------------------------------
(* The filling scenario (specification SpecFill): a freshly carved slab of  *)
(* slab size 16384 and block size 64, and consecutive claims only.          *)

FillInit ==
    /\ \E b \in Builds : Fresh(Config(16384, 64, b))
    /\ walk = IdleWalk
    /\ ctx = IdleCtx
    /\ codec = IdleCodec

FillNext == Claim

SpecFill == FillInit /\ [][FillNext]_vars

\* C6 as stated: is_full() is false until, and true after, exactly 255
\* consecutive claims.
C6_FullAfter255 ==
    is_full(link) <=> Cardinality(claimed) >= 255

\* C6 amended: the slab starts with used = 0, head = 65 (the offset of the
\* block after the link block, tagged) and link = 0; no claim fails; and
\* is_full() is false until, and true after, exactly 256 consecutive claims:
\* 255 bump claims, which leave head = 1, and the claim of the link block.
C6_FullAfter256 ==
    /\ status = "live"
    /\ used = Cardinality(claimed)
    /\ used = 0 => (head = 65 /\ link = 0)
    /\ used = 255 => (head = 1 /\ link = 0 /\ claimed = Blocks(cfg) \ {0})
    /\ is_full(link) <=> used = 256

\* the slab filled by its 256th claim, which hands out the link block
C6_Witness ==
    /\ cfg.slab_size = 16384 /\ cfg.size = 64
    /\ status = "live" /\ is_full(link) /\ Cardinality(claimed) = 256
    /\ last.op = "claim" /\ last.how = "link" /\ last.p = 0

-----------------------------------------------------------------------------
(* Claim followed at once by the release of the same block (Spec) *)

\* the step is a release of the block that the preceding claim handed out
ReleaseOfJustClaimed == last'.op = "release" /\ last'.after_claim

\* C7 as stated: claiming a block and then immediately releasing it leaves
\* head equal to that block's offset, leaves the terminator unchanged and
\* leaves every assertion of debug_slab_invariant true, whichever state the
\* claim started from.
C7_AsClaimed ==
    [][ReleaseOfJustClaimed =>
          /\ head' = last'.p
          /\ Terminator' = Terminator
          /\ debug_slab_invariant(used', head', link', mem', cfg') = "ok"
      ]_vars

\* C7 amended: when the claim did not fill the slab and another block stays
\* claimed, the release leaves head equal to the block's offset, the
\* terminator and link unchanged and debug_slab_invariant true; when the
\* claim filled the slab (it handed out the link block) and another block
\* stays claimed, the release leaves head = 1 and makes the block the link
\* block, debug_slab_invariant true; when the block was the only claimed
\* one, the release returns the slab and leaves head and link as they were.
C7_ClaimRelease ==
    [][ReleaseOfJustClaimed =>
          IF used = 1
          THEN status' = "retired" /\ used' = 0 /\ head' = head /\ link' = link
          ELSE IF is_full(link)
          THEN /\ status' = "live"
               /\ head = 1 /\ head' = 1 /\ link' = last'.p
               /\ Terminator' = Terminator
               /\ debug_slab_invariant(used', head', link', mem', cfg') = "ok"
          ELSE /\ status' = "live"
               /\ head' = last'.p /\ link' = link
               /\ Terminator' = Terminator
               /\ mem'[last'.p] = store_next(head, cfg)
               /\ debug_slab_invariant(used', head', link', mem', cfg') = "ok"
      ]_vars

\* a block claimed from the free list and released at once, back at the head
C7_Witness ==
    /\ status = "live" /\ last.op = "release" /\ last.after_claim
    /\ last.how = "free" /\ head = last.p /\ used > 0

\* the same after a bump claim, and after the claim that filled the slab
C7_WitnessBump ==
    /\ status = "live" /\ last.op = "release" /\ last.after_claim
    /\ last.how = "bump" /\ head = last.p /\ Terminator # 1

C7_WitnessFill ==
    /\ status = "live" /\ last.op = "release" /\ last.after_claim
    /\ last.how = "link" /\ head = 1 /\ link = last.p

-----------------------------------------------------------------------------
(* Use-after-free writes (specification SpecCorrupt): a hardened build in   *)
(* which the client overwrites the first word of a block that sits on the   *)
(* free list.                                                               *)

HardenedConfigs ==
    {Config(SLAB_SIZE, s, b) :
        s \in {16384}, b \in {x \in Builds : x.check_client /\ x.bits = 64}}

\* the free blocks that follow p on the free list
LaterFree(p) ==
    {FreeList[j] : j \in {i \in 1..Len(FreeList) :
                            \E k \in 1..(i - 1) : FreeList[k] = p}}

\* the words tried: single-bit flips of the stored word, the zero word, the
\* stored offset written raw, and the proper encodings of other next-values
\* (a later free block, 1, the initial bump cursor)
CorruptWords(p) ==
    {FlipBit(mem[p], b) : b \in {0, 16, cfg.bits - 1}}
    \cup {ToWord(0, cfg.bits), ToWord(Low16(mem[p]), cfg.bits)}
    \cup {store_next(o, cfg) :
            o \in LaterFree(p) \cup {1, get_initial_bumpptr(cfg)}}

Corrupt(p, w) ==
    /\ status = "live"
    /\ p \in SeqSet(FreeList) /\ p \notin tampered /\ mem[p] # Junk
    /\ ncorrupt < MaxCorrupt
    /\ ncorrupt' = ncorrupt + 1
    /\ w # mem[p]
    /\ mem' = [mem EXCEPT ![p] = w]
    /\ tampered' = tampered \cup {p}
    /\ last' = [NoOp EXCEPT !.op = "corrupt", !.p = p]
    /\ UNCHANGED <<cfg, used, head, link, claimed, status, walk, codec, ctx>>

CorruptInit ==
    /\ \E c \in HardenedConfigs : Fresh(c)
    /\ walk = IdleWalk
    /\ ctx = IdleCtx
    /\ codec = IdleCodec

CorruptNext ==
    \/ Claim
    \/ \E p \in claimed : Release(p)
    \/ Carve
    \/ \E p \in {q \in SeqSet(FreeList) : mem[q] # Junk} :
          \E w \in CorruptWords(p) : Corrupt(p, w)

SpecCorrupt == CorruptInit /\ [][CorruptNext]_vars

\* the word is what store_next writes for its own low 16 bits
ValidEncoding(w, c) == w = store_next(Low16(w), c)

\* the step is a claim that reads the next-value of an overwritten block
ClaimReadsTampered ==
    /\ last'.op = "claim"
    /\ status = "live" /\ head % 2 = 0 /\ head \in tampered

Fatal ==
    /\ status' = "uaf"
    /\ head' = head /\ link' = link /\ used' = used /\ claimed' = claimed

\* the claim does not return: it ends in the use-after-free error or, in a
\* debug build, in a failed assertion or the cycle error of the validators
Stopped ==
    /\ status' \in {"uaf", "assert", "cycle"}
    /\ head' = head /\ link' = link /\ used' = used /\ claimed' = claimed

\* C8 as stated: in hardened mode, after a free block's stored next-value is
\* overwritten with any different word, the claim that reads it terminates
\* fatally and never returns or installs an offset derived from the
\* overwritten word.  (Any fatal end is accepted here, so that a violation
\* is a claim that returns.)
C8_AnyOverwriteFatal ==
    [][ClaimReadsTampered => Stopped]_vars

\* C8 amended: in hardened mode, after a free block's stored next-value is
\* overwritten with a different word that is not itself the encoding
\* store_next gives to some 16-bit value, the claim that reads it terminates
\* with the use-after-free error and installs nothing.
C8_InvalidOverwriteFatal ==
    [][(ClaimReadsTampered /\ ~ValidEncoding(MemAt(mem, head, cfg), cfg))
          => Fatal]_vars

\* a release build stopped by follow_next inside the claim
C8_Witness ==
    /\ status = "uaf" /\ last.op = "claim" /\ cfg.ndebug /\ cfg.check_client
    /\ head \in tampered /\ ~ValidEncoding(mem[head], cfg)

\* an overwrite with the encoding of another next-value, accepted by a claim
\* of a release build: head is now the value the client chose
C8_WitnessAccepted ==
    /\ status = "live" /\ last.op = "claim" /\ last.how = "free"
    /\ cfg.ndebug /\ ncorrupt = 1 /\ head = get_initial_bumpptr(cfg)
    /\ debug_slab_invariant(used, head, link, mem, cfg) # "ok"

-----------------------------------------------------------------------------
(* debug_slab_acyclic_free_list stepped one loop iteration at a time over   *)
(* arbitrary block contents: every block holds the stored form of some      *)
(* next-value (a block offset, the exhausted cursor 1 or the initial bump   *)
(* cursor) or the zero word, so chains with and without cycles, and in      *)
(* hardened builds chains through an invalid word, all occur.               *)

\* the validator is compiled only into debug builds
WalkBuilds == {b \in DebugBuilds : b.bits = 64}

WalkConfigs ==
    {Config(SLAB_SIZE, s, b) :
        s \in {x \in SizeClasses : SLAB_SIZE \div x = WalkBlocks},
        b \in WalkBuilds}

\* the next-values a block may hold
WalkValues(c) == Blocks(c) \cup {1, get_initial_bumpptr(c)}

WalkWords(c) ==
    {store_next(v, c) : v \in WalkValues(c)} \cup {ToWord(0, c.bits)}

WalkInit ==
    /\ \E c \in WalkConfigs :
          /\ cfg = c
          /\ link = get_initial_link(c)
          /\ mem \in [Blocks(c) -> WalkWords(c)]
          /\ \E h \in WalkValues(c) : head = h /\ walk = WalkStart(h)
    /\ used = 0
    /\ claimed = {}
    /\ status = "live"
    /\ last = NoOp
    /\ tampered = {}
    /\ ncorrupt = 0
    /\ codec = IdleCodec
    /\ ctx = IdleCtx

\* the loop condition and one loop body of lines 147-160
WalkStep ==
    /\ walk.pc = "loop"
    /\ walk' = WalkIter(walk, mem, cfg)
    /\ UNCHANGED <<cfg, used, head, link, mem, claimed, status, last,
                   tampered, ncorrupt, codec, ctx>>

WalkNext == WalkStep

SpecWalk == WalkInit /\ [][WalkNext]_vars

\* the values met by following the stored low 16 bits from h: at most n
\* followed, ending with the first bump-tagged value if there is one
RECURSIVE OffsetsFrom(_, _, _, _)
OffsetsFrom(h, m, c, n) ==
    IF h % 2 = 1 \/ n = 0 THEN <<h>>
    ELSE <<h>> \o OffsetsFrom(Low16(MemAt(m, h, c)), m, c, n - 1)

\* long enough to repeat an offset when no bump-tagged value is reached
WalkChain == OffsetsFrom(head, mem, cfg, BlockCount(cfg) + 2)

\* C9: the cycle error is raised only when the chain of next-values from
\* head revisits an offset; the walk returns only when the chain has
\* reached a bump-tagged value; and on a chain that reaches a bump-tagged
\* value the hare and the tortoise never coincide after a step.
C9_CycleExact ==
    /\ walk.pc = "cycle" => ~NoRepeat(WalkChain)
    /\ walk.pc = "returned" =>
          /\ walk.curr % 2 = 1
          /\ walk.curr = WalkChain[Len(WalkChain)]
    /\ (WalkChain[Len(WalkChain)] % 2 = 1 /\ walk.steps >= 1) =>
          /\ walk.curr # walk.curr_slow
          /\ walk.pc # "cycle"

\* a cycle of more than one block is reported
C9_Witness ==
    /\ walk.pc = "cycle" /\ walk.steps >= 2
    /\ Low16(MemAt(mem, head, cfg)) # head

\* the head block released twice: its next-value is its own offset
C9_WitnessDoubleFree ==
    /\ walk.pc = "cycle" /\ head % 2 = 0
    /\ Low16(MemAt(mem, head, cfg)) = head

\* a walk over two or more free blocks returns at the bump-tagged value
C9_WitnessReturned ==
    /\ walk.pc = "returned" /\ walk.steps >= 2
    /\ walk.curr # walk.curr_slow

-----------------------------------------------------------------------------
(* The use counter (specification Spec) *)

\* C11: with add_use / sub_use called once per claim / release, used equals
\* the number of blocks currently claimed, stays within 0 .. blocks of the
\* slab (no wrap to 65535, no overflow), and is_unused() holds exactly when
\* no block is claimed.
C11_UsedCountsClaimed ==
    /\ used = Cardinality(claimed)
    /\ used <= BlockCount(cfg)
    /\ used < U16 - 1
    /\ is_unused(used) <=> claimed = {}

\* several blocks still claimed after a release
C11_Witness ==
    /\ status = "live" /\ last.op = "release" /\ Cardinality(claimed) >= 2

\* the last claimed block released: the counter is back at zero
C11_WitnessUnused ==
    /\ status = "retired" /\ last.op = "release" /\ claimed = {}

-----------------------------------------------------------------------------
(* The link block (specification Spec) *)

\* C12: in every not-full state of a carved slab whose free-list terminator
\* is a bump cursor other than 1, link equals the initial link offset of
\* the size class; link differs from it only when the terminator is 1.
C12_LinkInitial ==
    status # "retired" =>
        /\ (~is_full(link) /\ Terminator # 1) =>
              link = get_initial_link(cfg)
        /\ link # get_initial_link(cfg) => Terminator = 1

\* blocks on the free list and bump headroom left: link is still initial
C12_Witness ==
    /\ status = "live" /\ last.op = "release" /\ ~is_full(link)
    /\ Len(FreeList) >= 1 /\ Terminator # 1

\* a not-full slab whose link block has moved: it was full before
C12_WitnessMoved ==
    /\ status = "live" /\ ~is_full(link) /\ link # get_initial_link(cfg)
    /\ Terminator = 1

-----------------------------------------------------------------------------
(* Block alignment (specification Spec) *)

\* (o - initial link offset) is a multiple of the block size, as a
\* mathematical statement and as lines 194-195 compute it on size_t
Aligned(o) ==
    /\ (remove_cache_friendly_offset(o, cfg) - get_initial_link(cfg))
           % sizeclass_to_size(cfg) = 0
    /\ SubWrapMod(remove_cache_friendly_offset(o, cfg), get_initial_link(cfg),
                  cfg.bits, sizeclass_to_size(cfg)) = 0

\* C13: in every not-full state of a carved slab, every offset on the free
\* list, and the bump cursor with its tag bit cleared when it is not 1, is
\* block-aligned relative to the initial link offset of the size class.
C13_BlockAligned ==
    (status # "retired" /\ ~is_full(link)) =>
        /\ \A i \in 1..Len(FreeList) : Aligned(FreeList[i])
        /\ Terminator # 1 => Aligned(Terminator - 1)

\* free blocks and bump headroom in a size class whose first block does not
\* start at offset 0
C13_Witness ==
    /\ status = "live" /\ last.op = "release" /\ ~is_full(link)
    /\ get_initial_link(cfg) > 0 /\ Len(FreeList) >= 1 /\ Terminator # 1

-----------------------------------------------------------------------------
(* valid_head on its own (specification SpecHead): the assertion           *)
(* assert(valid_head(is_short)) evaluated for a head chosen freely in       *)
(* [0, SLAB_SIZE), for every size class and both word widths.               *)

HeadBuilds == {b \in Builds : ~b.ndebug /\ ~b.check_client}

HeadConfigs == {Config(SLAB_SIZE, s, b) : s \in SizeClasses, b \in HeadBuilds}

\* block offsets and bump cursors, the sentinel, offsets below the first
\* block, and offsets that lie inside a block
HeadValues(c) ==
    {h \in UNION {{o, o + 1, o + 2, o + 17} : o \in Blocks(c) \cup {0}} :
        h < c.slab_size}
    \cup {get_initial_link(c) - d : d \in {x \in {1, 2, 2048} :
                                             x <= get_initial_link(c)}}

HeadInit ==
    /\ \E c \in HeadConfigs :
          /\ cfg = c
          /\ link = get_initial_link(c)
          /\ mem = [o \in Blocks(c) |-> Junk]
          /\ \E h \in HeadValues(c) : head = h
    /\ used = 0
    /\ claimed = {}
    /\ status = "live"
    /\ last = NoOp
    /\ tampered = {}
    /\ ncorrupt = 0
    /\ walk = IdleWalk
    /\ ctx = IdleCtx
    /\ codec = IdleCodec

\* assert(valid_head(is_short))
AssertValidHead ==
    /\ status = "live"
    /\ last.op = "none"
    /\ last' = [NoOp EXCEPT !.op = "valid_head"]
    /\ status' = IF valid_head(head, cfg) THEN "live" ELSE "assert"
    /\ UNCHANGED <<cfg, used, head, link, mem, claimed, tampered, ncorrupt,
                   walk, codec, ctx>>

HeadNext == AssertValidHead

SpecHead == HeadInit /\ [][HeadNext]_vars

\* head with its tag bit cleared and the cache-friendly offset removed
HeadStart == remove_cache_friendly_offset(head - (head % 2), cfg)

\* head_start is congruent to the initial link offset modulo the block size
Congruent ==
    (HeadStart - get_initial_link(cfg)) % sizeclass_to_size(cfg) = 0

\* the result of the call made by AssertValidHead
Returned == status = "live"

IsPow2(n) == \E k \in 0..16 : n = Pow2(k)

\* C14 as stated: valid_head returns true exactly when head (tag cleared)
\* is congruent to the initial link offset modulo the block size, for every
\* head and block size, heads below the initial link offset included.
C14_AsClaimed ==
    last.op = "valid_head" => (Returned <=> Congruent)

\* C14 amended: for a head (tag cleared) at or above the initial link
\* offset, or a block size that is a power of two, valid_head returns true
\* exactly when head is congruent to the initial link offset modulo the
\* block size; for a head below the initial link offset and any other block
\* size it returns true exactly when 2^BITS is congruent to (initial link
\* offset - head) modulo the block size.
C14_ValidHead ==
    last.op = "valid_head" =>
        IF HeadStart >= get_initial_link(cfg) \/ IsPow2(sizeclass_to_size(cfg))
        THEN Returned <=> Congruent
        ELSE Returned <=>
               (Pow2Mod(cfg.bits, sizeclass_to_size(cfg))
                  - (get_initial_link(cfg) - HeadStart))
                   % sizeclass_to_size(cfg) = 0

\* head = 1 in a size class whose first block is not at offset 0: the
\* subtraction wraps, and the call returns true for an incongruent head
C14_Witness ==
    /\ last.op = "valid_head" /\ head = 1 /\ get_initial_link(cfg) > 0
    /\ Returned /\ ~Congruent

\* a block offset accepted and an offset inside a block rejected
C14_WitnessAccepted ==
    /\ last.op = "valid_head" /\ head \in Blocks(cfg)
    /\ head > get_initial_link(cfg) /\ Returned

C14_WitnessRejected ==
    /\ last.op = "valid_head" /\ head > get_initial_link(cfg) /\ ~Returned

-----------------------------------------------------------------------------
(* head and link as offsets modulo the slab size (specification Spec) *)

\* the step is a claim served by the bump cursor
BumpClaim == last'.op = "claim" /\ last'.how = "bump"

\* C15: head and link always hold values in [0, slab size); a bump claim
\* hands out the block under the cursor and advances the cursor by the
\* block size: to the tagged offset of the next block, or, when the block
\* was the last never-used one (it ends at the end of the slab), to
\* exactly 1.
C15_ModularOffsets ==
    /\ [](head \in 0..(cfg.slab_size - 1) /\ link \in 0..(cfg.slab_size - 1))
    /\ [][BumpClaim =>
            /\ last'.p = head - 1
            /\ IF last'.p + sizeclass_to_size(cfg) = cfg.slab_size
               THEN head' = 1
               ELSE /\ head' = last'.p + sizeclass_to_size(cfg) + 1
                    /\ head' - 1 \in Blocks(cfg) \ claimed'
         ]_vars

\* the bump cursor wrapped to the sentinel by the claim of the last block
C15_Witness ==
    /\ status = "live" /\ last.op = "claim" /\ last.how = "bump"
    /\ last.p + sizeclass_to_size(cfg) = cfg.slab_size
    /\ head = 1 /\ BlockCount(cfg) >= 3

-----------------------------------------------------------------------------
(* Termination of debug_slab_acyclic_free_list.  The loop is sequential     *)
(* code: once entered it keeps executing iterations, which is weak fairness *)
(* of WalkStep.                                                             *)

SpecWalkFair == SpecWalk /\ WF_vars(WalkStep)

\* C16: for every head and every assignment of next-values to the blocks,
\* the loop ends after finitely many iterations: it returns at a
\* bump-tagged value or raises the cycle or the use-after-free error.
C16_WalkTerminates ==
    /\ <>(walk.pc \in {"returned", "cycle", "uaf"})
    /\ [](walk.steps <= 2 * (BlockCount(cfg) + 1))

\* a cycle entered after a prefix that is not part of it, found and reported
C16_Witness ==
    /\ walk.pc = "cycle" /\ walk.steps >= 2
    /\ walk.curr # head /\ head % 2 = 0
    /\ head \notin SeqSet(OffsetsFrom(Low16(MemAt(mem, head, cfg)), mem, cfg,
                                      BlockCount(cfg) + 2))

-----------------------------------------------------------------------------
(* follow_next on arbitrary words (specification SpecDecode): a hardened    *)
(* build reads a word whose 16-bit limbs are chosen freely from a set that  *)
(* holds the limbs of POISON and their one-bit neighbours.                  *)

DecodeBuilds == {b \in Builds : b.check_client /\ ~b.ndebug}

DecodeLimbs == {0, 1, 2, 57005, 57004, 57007, 48879, 48878, 65535}

DecodeWords(bits) ==
    IF bits = 64
    THEN {<<a, b, c, d>> : a \in DecodeLimbs, b \in DecodeLimbs,
                           c \in DecodeLimbs, d \in DecodeLimbs}
    ELSE {<<a, b>> : a \in DecodeLimbs, b \in DecodeLimbs}

DecodeInit ==
    /\ \E b \in DecodeBuilds : Fresh(Config(SLAB_SIZE, 16384, b))
    /\ walk = IdleWalk
    /\ ctx = IdleCtx
    /\ \E w \in DecodeWords(cfg.bits) :
          codec = [IdleCodec EXCEPT !.pc = "given", !.o = Low16(w), !.word = w]

\* follow_next(p) on the given word
DecodeFollow ==
    /\ codec.pc = "given"
    /\ \E r \in {follow_next(codec.word, cfg)} :
          codec' = [codec EXCEPT !.pc = "decoded", !.fatal = r.fatal,
                                 !.value = r.value]
    /\ UNCHANGED <<cfg, used, head, link, mem, claimed, status, last,
                   tampered, ncorrupt, walk, ctx>>

DecodeNext == DecodeFollow

SpecDecode == DecodeInit /\ [][DecodeNext]_vars

\* C17: in hardened mode follow_next returns without the fatal error
\* exactly when the word is the value store_next writes for the word's own
\* low 16 bits, and it then returns those low 16 bits.
C17_AcceptsOnlyEncodings ==
    codec.pc = "decoded" =>
        /\ ~codec.fatal <=> codec.word = store_next(Low16(codec.word), cfg)
        /\ ~codec.fatal => codec.value = Low16(codec.word)

\* a word that is the encoding of a non-zero offset, accepted
C17_Witness ==
    /\ codec.pc = "decoded" /\ ~codec.fatal /\ cfg.bits = 64
    /\ codec.value = 57005

\* a word that differs from an encoding in one middle limb only, rejected
C17_WitnessRejected ==
    /\ codec.pc = "decoded" /\ codec.fatal /\ cfg.bits = 64
    /\ codec.word = <<1, 57005, 48878, 57004>>

-----------------------------------------------------------------------------
(* No block is handed out twice (specification Spec) *)

\* blocks the bump cursor has not reached yet
NeverUsed ==
    IF Terminator % 2 = 1 /\ Terminator # 1
    THEN {o \in Blocks(cfg) : o >= Terminator - 1}
    ELSE {}

\* the block reserved for the link node while the slab is not full
LinkBlock == IF is_full(link) THEN {} ELSE {link}

\* the step is a claim that hands out a block
HandsOut == last'.op = "claim" /\ last'.how # "none"

\* C18: the offset a claim returns is the free-list head, the bump cursor
\* minus its tag, or the link block when head = 1, and is a block that is
\* not claimed at that moment; in every state of a carved slab the claimed
\* blocks, the free-list blocks, the never-used blocks and the link block
\* are pairwise disjoint sets of blocks of the slab.
C18_NoDoubleHandOut ==
    /\ [][HandsOut =>
            /\ last'.p \in Blocks(cfg) \ claimed
            /\ last'.p = IF head % 2 = 0 THEN head
                         ELSE IF head = 1 THEN link ELSE head - 1
         ]_vars
    /\ [](status # "retired" =>
            /\ claimed \cap SeqSet(FreeList) = {}
            /\ claimed \cap NeverUsed = {}
            /\ claimed \cap LinkBlock = {}
            /\ SeqSet(FreeList) \cap NeverUsed = {}
            /\ SeqSet(FreeList) \cap LinkBlock = {}
            /\ NeverUsed \cap LinkBlock = {}
            /\ NoRepeat(FreeList)
            /\ (SeqSet(FreeList) \cup NeverUsed \cup LinkBlock)
                   \subseteq Blocks(cfg))

\* a block released earlier is handed out again while another stays
\* claimed and a never-used block and the link block exist
C18_Witness ==
    /\ status = "live" /\ last.op = "claim" /\ last.how = "free"
    /\ Cardinality(claimed) >= 2 /\ NeverUsed # {} /\ LinkBlock # {}

\* a free block beside claimed blocks and the link block
C18_WitnessFree ==
    /\ status = "live" /\ last.op = "release"
    /\ Cardinality(claimed) >= 2 /\ SeqSet(FreeList) # {} /\ LinkBlock # {}

-----------------------------------------------------------------------------
(* Last-in-first-out reuse (specification Spec) *)

\* the step releases a block into a slab that is not full and stays in use
PushRelease == last'.op = "release" /\ ~is_full(link) /\ used' > 0

\* the step is the claim that follows such a release
ClaimAfterPush ==
    /\ last'.op = "claim"
    /\ last.op = "release" /\ head = last.p /\ ~is_full(link)

\* C19: a release of p into a slab that is not full and stays in use leaves
\* head = p and stores the previous head as p's next-value; the claim that
\* follows returns p and sets head to that stored value, the head before
\* the release; the bump cursor and the link block are used only when the
\* free list is empty.
C19_LIFO ==
    [][/\ PushRelease =>
            /\ status' = "live"
            /\ head' = last'.p
            /\ mem'[last'.p] = store_next(head, cfg)
            /\ ~follow_next(mem'[last'.p], cfg).fatal
            /\ follow_next(mem'[last'.p], cfg).value = head
       /\ ClaimAfterPush =>
            /\ status' = "live"
            /\ last'.how = "free" /\ last'.p = last.p
            /\ head' = follow_next(mem[last.p], cfg).value
            /\ mem[last.p] = store_next(head', cfg)
       /\ (last'.op = "claim" /\ last'.how \in {"bump", "link"}) =>
            (FreeList = <<>> /\ head % 2 = 1)
      ]_vars

\* the block released last was handed out again and head is back at the
\* block released before it
C19_Witness ==
    /\ status = "live" /\ last.op = "claim" /\ last.how = "free"
    /\ Len(FreeList) >= 1 /\ head % 2 = 0

\* a bump claim made after the free list had been emptied by reuse
C19_WitnessBump ==
    /\ status = "live" /\ last.op = "claim" /\ last.how = "bump"
    /\ Cardinality(claimed) >= 3

-----------------------------------------------------------------------------
(* add_use / sub_use without the single-writer contract (specification      *)
(* SpecRace).  used++ and used-- are unsynchronised read-modify-write       *)
(* updates of a plain uint16_t; two contexts inside them at once is a data  *)
(* race, whose outcomes are modelled by splitting each update into its load *)
(* and its store.  The block a context claims or releases is recorded       *)
(* with the store.                                                          *)

RaceConfigs ==
    {Config(SLAB_SIZE, 16384, b) : b \in {x \in Builds : x.ndebug}}

RaceInit ==
    /\ \E c \in RaceConfigs : Fresh(c)
    /\ walk = IdleWalk
    /\ codec = IdleCodec
    /\ ctx = IdleCtx

\* blocks that a context inside add_use / sub_use is claiming or releasing
InFlight == {ctx.th[t].p : t \in {x \in Contexts : ctx.th[x].pc # "idle"}}

\* context t enters with pc and block p: the load of used
Enter(t, pc, p) ==
    LET others == \E t2 \in Contexts \ {t} : ctx.th[t2].pc # "idle"
    IN /\ ctx.th[t].pc = "idle"
       /\ others => ctx.raced < MaxRaces
       /\ ctx' = [th |-> [ctx.th EXCEPT ![t] = [pc |-> pc, reg |-> used,
                                                 p |-> p]],
                  raced |-> IF others THEN ctx.raced + 1 ELSE ctx.raced]
       /\ UNCHANGED <<cfg, used, head, link, mem, claimed, status, last,
                      tampered, ncorrupt, walk, codec>>

\* add_use, first half: the load of used++
AddUseLoad(t) ==
    \E p \in (Blocks(cfg) \ claimed) \ InFlight : Enter(t, "add", p)

\* add_use, second half: the store of used++
AddUseStore(t) ==
    /\ ctx.th[t].pc = "add"
    /\ used' = add_use(ctx.th[t].reg)
    /\ claimed' = claimed \cup {ctx.th[t].p}
    /\ ctx' = [ctx EXCEPT !.th[t] = [pc |-> "idle", reg |-> 0, p |-> 0]]
    /\ UNCHANGED <<cfg, head, link, mem, status, last, tampered, ncorrupt,
                   walk, codec>>

\* sub_use, first half: the load of used--
SubUseLoad(t) ==
    \E p \in claimed \ InFlight : Enter(t, "sub", p)

\* sub_use, second half: the store of used--
SubUseStore(t) ==
    /\ ctx.th[t].pc = "sub"
    /\ used' = sub_use(ctx.th[t].reg)
    /\ claimed' = claimed \ {ctx.th[t].p}
    /\ ctx' = [ctx EXCEPT !.th[t] = [pc |-> "idle", reg |-> 0, p |-> 0]]
    /\ UNCHANGED <<cfg, head, link, mem, status, last, tampered, ncorrupt,
                   walk, codec>>

RaceNext ==
    \E t \in Contexts :
        \/ AddUseLoad(t)
        \/ AddUseStore(t)
        \/ SubUseLoad(t)
        \/ SubUseStore(t)

SpecRace == RaceInit /\ [][RaceNext]_vars

\* no context is inside add_use / sub_use
Quiet == \A t \in Contexts : ctx.th[t].pc = "idle"

C20_WitnessWrap ==
    /\ ctx.raced > 0 /\ Quiet /\ claimed = {} /\ used = U16 - 1

\* single writer: claims and releases one after the other keep the count
C20_WitnessSingle ==
    /\ ctx.raced = 0 /\ Quiet /\ Cardinality(claimed) >= 3

====
